---- MODULE Spec2Model ----
(***************************************************************************)
(* Redemption of single-use codes (yozoyaa/roblox-code-vercel).            *)
(*                                                                         *)
(* Two redeem handlers exist in the repository:                            *)
(*   "v2"  src/unnamed/part_002  REDEEM_SQL: advisory lock on              *)
(*         (playerUserId, category), ledger lookup, FIFO pop, 10 s abort.  *)
(*   "v1"  src/api/redeem.ts     FIFO pop only, player optional.           *)
(* Each handler sends ONE SQL statement over HTTP; the statement runs in   *)
(* its own READ COMMITTED transaction on the store.  The store side of a   *)
(* call is modelled by the steps of that statement: the snapshot taken     *)
(* when the statement starts, the wait for pg_advisory_xact_lock, the      *)
(* evaluation of existing/picked (FOR UPDATE SKIP LOCKED), and the commit  *)
(* that makes the UPDATE and the INSERT visible together.                  *)
(***************************************************************************)
EXTENDS Integers, Sequences, FiniteSets

\* ------------------------------------------------------------------ bounds
MaxCalls == 2      \* redeem invocations in one behaviour, any overlap
MaxCode == 3       \* ids of the seeded codes are 1..MaxCode
MaxPlayer == 2     \* player ids are 1..MaxPlayer
MaxRequests == 1   \* redeem requests received next to the read requests (SpecAll)

\* --------------------------------------------------------------- constants
DB_TIMEOUT_MS == 10000

ALLOWED_CATEGORIES == {"gopay_cashback", "gopay_coins"}

Handlers == {"v1", "v2"}
CallIds == 1..MaxCalls
CodeIds == 1..MaxCode
Players == 1..MaxPlayer
\* playerUserId undefined -> player_user_id NULL (v1 only): a value apart from
\* every number a request can carry
NoPlayer == 0 - 1000
NULL == 0              \* SQL NULL / JS null for ids, timestamps and code values

\* playerUserId is a JSON number: the integer n is n, the non-integer n + 1/2
\* is Half(n), a value apart from every integer in use
Half(n) == 1000 + n
IsFraction(p) == p >= 1000

\* The seed (out of band): every third code is a cashback code, the others
\* are coins codes; all are unconsumed and the ledger is empty.
SeedCategory(id) == IF id % 3 = 0 THEN "gopay_cashback" ELSE "gopay_coins"

\* codes.code of the row with this id: an opaque non-empty string, distinct
\* per row; represented by a number distinct from every id.
CodeValue(id) == 100 + id

\* now() is the start time of the calling transaction: a non-null timestamp
\* that no other transaction reads; calls are numbered in order of arrival.
Now(i) == i

Min_Last(S) == CHOOSE x \in S : \A y \in S : x >= y

Min(S) == CHOOSE x \in S : \A y \in S : x <= y

Max(S) == CHOOSE x \in S : \A y \in S : x >= y

VARIABLES
  codes,    \* table codes:     id -> [category, used_at]
  ledger,   \* table used_code: sequence of [code_id, player_user_id, category]
  req,      \* per call: [handler, player, category] of the parsed body
  client,   \* per call: the handler's position and the response it sent
  txn,      \* per call: the statement's transaction on the store
  hist,     \* per call: what was observable when the call was issued
  http,     \* per call: the handler that received it, whether the request was
            \* ill-formed, and the error it answered
  reader    \* the read accessor in progress (status, peek or stats)

vars == <<codes, ledger, req, client, txn, hist, http, reader>>

\* ------------------------------------------------------------ error values
\* A thrown value as isTimeoutError / isConnectionError see it: whether it is
\* a non-null object, its name, and which of the searched substrings its
\* lower-cased message contains.
Tokens == {"timed out", "fetch failed", "ecconnreset", "econnreset",
           "etimedout", "socket", "network"}

isTimeoutError(err) ==
  IF ~err.obj THEN FALSE
  ELSE err.name = "AbortError" \/ "timed out" \in err.msg

isConnectionError(err) ==
  IF ~err.obj THEN FALSE
  ELSE \E t \in {"fetch failed", "ecconnreset", "econnreset", "etimedout",
                 "socket", "network"} : t \in err.msg

\* the catch block of each handler
CatchStatusV1(err) == 500

CatchStatusV2(err) ==
  IF isTimeoutError(err) THEN 504
  ELSE IF isConnectionError(err) THEN 503
  ELSE 500

CatchStatus(h, err) == IF h = "v2" THEN CatchStatusV2(err) ELSE CatchStatusV1(err)

\* What the store client throws, by cause.
\* abort("timed out") makes the fetch reject with its reason, the string
\* "timed out"; the store client passes it on as it is (not an object), or
\* wraps it in an error whose message quotes it or does not, or the runtime
\* raises an AbortError.
TimeoutErrs == {[obj |-> TRUE, name |-> "AbortError", msg |-> {}],
                [obj |-> TRUE, name |-> "NeonDbError", msg |-> {"timed out"}],
                [obj |-> TRUE, name |-> "NeonDbError", msg |-> {}],
                [obj |-> FALSE, name |-> "", msg |-> {"timed out"}]}
\* A lost connection: the fetch fails ("fetch failed"), a socket error is
\* reported by name, or the connection is cut while the response body is
\* read, which the runtime raises as TypeError "terminated" (none of the
\* searched substrings).
ConnErrs == {[obj |-> TRUE, name |-> "NeonDbError", msg |-> {"fetch failed"}],
             [obj |-> TRUE, name |-> "Error", msg |-> {"socket"}],
             [obj |-> TRUE, name |-> "Error", msg |-> {"econnreset"}],
             [obj |-> TRUE, name |-> "TypeError", msg |-> {}]}
OtherErrs == {[obj |-> TRUE, name |-> "NeonDbError", msg |-> {}]}

\* ------------------------------------------------------------ HTTP layer
\* the configured secret of the endpoint a request is sent to
SECRET == "secret"

\* req.headers["x-api-key"]: undefined, a string, or an array of strings
NoHeader == [kind |-> "none", vals |-> <<>>]
HeaderValues ==
  {NoHeader}
  \cup {[kind |-> "string", vals |-> <<v>>] : v \in {SECRET, "bad", ""}}
  \cup {[kind |-> "array", vals |-> vs] :
          vs \in {<<>>, <<"bad", SECRET>>, <<SECRET, "bad">>}}

\* getHeader: <<>> stands for null, <<v>> for the string v
getHeader(h) ==
  IF h.kind = "none" THEN <<>>
  ELSE IF h.kind = "string" THEN (IF h.vals[1] = "" THEN <<>> ELSE h.vals)
  ELSE IF Len(h.vals) = 0 THEN <<>> ELSE <<h.vals[1]>>

\* body.playerUserId as received
NoPlayerField == [type |-> "undefined", finite |-> FALSE, value |-> 0]
PlayerNumber(v) == [type |-> "number", finite |-> TRUE, value |-> v]
PlayerInputs ==
  {NoPlayerField,
   [type |-> "string", finite |-> FALSE, value |-> 0],
   [type |-> "number", finite |-> FALSE, value |-> 0]}
  \cup {PlayerNumber(v) : v \in Players \cup {0, -1, Half(1)}}

\* the request body: whether JSON.parse succeeds, whether the value is a
\* non-null object, and its category and playerUserId fields
Bodies ==
  [json : {"ok"}, isObject : {TRUE}, catIsString : {TRUE},
   category : ALLOWED_CATEGORIES \cup {"bogus"}, player : PlayerInputs]
  \cup [json : {"ok"}, isObject : {TRUE}, catIsString : {FALSE},
        category : {"bogus"}, player : {PlayerNumber(1)}]
  \cup [json : {"ok", "malformed"}, isObject : {FALSE}, catIsString : {FALSE},
        category : {"bogus"}, player : {NoPlayerField}]

GoodBody == [json |-> "ok", isObject |-> TRUE, catIsString |-> TRUE,
             category |-> "gopay_coins", player |-> PlayerNumber(1)]

\* the redeem requests tried: every body under a good envelope, every
\* envelope around a good body, and a request wrong in method and credential
RedeemRequests ==
  [method : {"POST"}, key : {[kind |-> "string", vals |-> <<SECRET>>]}, body : Bodies]
  \cup [method : {"POST", "GET"}, key : HeaderValues, body : {GoodBody}]

ParseFailed == [ok |-> FALSE, category |-> "gopay_coins", player |-> NoPlayer]

\* parseRedeemBody of part_002: playerUserId must be a finite number
parseRedeemBodyV2(b) ==
  IF ~b.isObject THEN ParseFailed
  ELSE IF ~b.catIsString \/ b.category \notin ALLOWED_CATEGORIES THEN ParseFailed
  ELSE IF b.player.type # "number" \/ ~b.player.finite THEN ParseFailed
  ELSE [ok |-> TRUE, category |-> b.category, player |-> b.player.value]

\* parseRedeemBody of api/redeem.ts: playerUserId is optional
parseRedeemBodyV1(b) ==
  IF ~b.isObject THEN ParseFailed
  ELSE IF ~b.catIsString \/ b.category \notin ALLOWED_CATEGORIES THEN ParseFailed
  ELSE [ok |-> TRUE, category |-> b.category,
        player |-> IF b.player.type = "number" /\ b.player.finite
                   THEN b.player.value ELSE NoPlayer]

parseRedeemBody(h, b) ==
  IF h = "v2" THEN parseRedeemBodyV2(b) ELSE parseRedeemBodyV1(b)

Accepted == [status |-> 0, error |-> "none"]

ValidateRedeem_NoKeyCheck(h, r) ==
  IF r.method # "POST" THEN [status |-> 405, error |-> "METHOD_NOT_ALLOWED"]
  ELSE IF r.body.json = "malformed" THEN [status |-> 400, error |-> "INVALID_JSON"]
  ELSE IF ~parseRedeemBody(h, r.body).ok THEN [status |-> 400, error |-> "INVALID_BODY"]
  ELSE Accepted

\* the checks of a redeem handler before its try block, in their order
ValidateRedeem(h, r) ==
  IF r.method # "POST" THEN [status |-> 405, error |-> "METHOD_NOT_ALLOWED"]
  ELSE IF getHeader(r.key) # <<SECRET>> THEN [status |-> 401, error |-> "UNAUTHORIZED"]
  ELSE IF r.body.json = "malformed" THEN [status |-> 400, error |-> "INVALID_JSON"]
  ELSE IF ~parseRedeemBody(h, r.body).ok THEN [status |-> 400, error |-> "INVALID_BODY"]
  ELSE Accepted

\* What a request is, apart from what the handler makes of it (kept with the
\* call for the properties below).
\* the x-api-key header, as getHeader reads it, is the credential of the endpoint
KeyPresented(r) == getHeader(r.key) = <<SECRET>>

\* a redeem request with a wrong method, without the credential, with
\* malformed JSON, or with a body that is no object or names no allowed category
BadRedeem(r) ==
  \/ r.method # "POST"
  \/ ~KeyPresented(r)
  \/ r.body.json = "malformed"
  \/ ~r.body.isObject
  \/ ~r.body.catIsString
  \/ r.body.category \notin ALLOWED_CATEGORIES

\* the same for a read request; status needs a code and accepts no unknown
\* category, peek needs an allowed category
BadRead(h, r) ==
  \/ r.method # "GET"
  \/ ~KeyPresented(r)
  \/ h = "status" /\ r.query.category \notin ALLOWED_CATEGORIES \cup {""}
  \/ h = "status" /\ r.query.code = NULL
  \/ h = "peek" /\ r.query.category \notin ALLOWED_CATEGORIES

IdleHttp == [handler |-> "none", error |-> "none", bad |-> FALSE]
\* query parameters of the read accessors: category is "" when absent or
\* empty, code is NULL when absent or empty
ReaderQueries ==
  [category : {"", "gopay_cashback", "bogus"}, code : {NULL, CodeValue(1)}]
GoodQuery == [category |-> "gopay_cashback", code |-> CodeValue(1)]

\* the read requests tried: every query under a good envelope, and every
\* envelope around a good query
ReaderRequests ==
  [method : {"GET"}, key : {[kind |-> "string", vals |-> <<SECRET>>]},
   query : ReaderQueries]
  \cup [method : {"GET", "POST"}, key : HeaderValues, query : {GoodQuery}]

\* the checks of the status handler before its try block
ValidateStatus(r) ==
  IF r.method # "GET" THEN [status |-> 405, error |-> "METHOD_NOT_ALLOWED"]
  ELSE IF getHeader(r.key) # <<SECRET>> THEN [status |-> 401, error |-> "UNAUTHORIZED"]
  ELSE IF r.query.category # "" /\ r.query.category \notin ALLOWED_CATEGORIES
       THEN [status |-> 400, error |-> "INVALID_CATEGORY"]
  ELSE IF r.query.code = NULL THEN [status |-> 400, error |-> "INVALID_CODE"]
  ELSE Accepted

\* the checks of the peek handler before its try block
ValidatePeek(r) ==
  IF r.method # "GET" THEN [status |-> 405, error |-> "METHOD_NOT_ALLOWED"]
  ELSE IF getHeader(r.key) # <<SECRET>> THEN [status |-> 401, error |-> "UNAUTHORIZED"]
  ELSE IF r.query.category = "" \/ r.query.category \notin ALLOWED_CATEGORIES
       THEN [status |-> 400, error |-> "INVALID_CATEGORY"]
  ELSE Accepted

\* the checks of the stats handler before its try block
ValidateStats(r) ==
  IF r.method # "GET" THEN [status |-> 405, error |-> "METHOD_NOT_ALLOWED"]
  ELSE IF getHeader(r.key) # <<SECRET>> THEN [status |-> 401, error |-> "UNAUTHORIZED"]
  ELSE Accepted

ReaderHandlers == {"status", "peek", "stats"}

ValidateReader(h, r) ==
  IF h = "status" THEN ValidateStatus(r)
  ELSE IF h = "peek" THEN ValidatePeek(r)
  ELSE ValidateStats(r)

NoStats == [c \in ALLOWED_CATEGORIES |-> [remaining |-> 0, used |-> 0]]

\* pc: idle; query (first query sent, not yet run by the store); result (its
\* rows are on their way to the handler); query2 and result2 (the same for
\* USED_QUERY); done (answer sent).  category and code are the parameters of
\* the query to run; row, used, usedRecord and stats are rows read, then the
\* fields of the answer.
IdleReader == [pc |-> "idle", handler |-> "none", category |-> "", code |-> NULL,
               row |-> NULL, status |-> 0, error |-> "none",
               used |-> FALSE, usedRecord |-> NULL, stats |-> NoStats,
               bad |-> FALSE]

\* ------------------------------------------------------------------- Init
IdleReq == [handler |-> "v2", player |-> NoPlayer, category |-> "gopay_coins"]
IdleClient == [pc |-> "idle", status |-> 0, code |-> NULL, cause |-> "none"]
IdleTxn == [pc |-> "none", start |-> 0, snapAvail |-> {}, snapLen |-> 0,
            already |-> NULL, row |-> NULL]
IdleHist == [alone |-> FALSE, avail |-> {}, prior |-> {}, retry |-> FALSE]

Init ==
  /\ codes = [id \in CodeIds |-> [category |-> SeedCategory(id), used_at |-> NULL]]
  /\ ledger = <<>>
  /\ req = [i \in CallIds |-> IdleReq]
  /\ client = [i \in CallIds |-> IdleClient]
  /\ txn = [i \in CallIds |-> IdleTxn]
  /\ hist = [i \in CallIds |-> IdleHist]
  /\ http = [i \in CallIds |-> IdleHttp]
  /\ reader = IdleReader

\* --------------------------------------------------------- derived notions
Active(j) == txn[j].pc \in {"wantlock", "running", "picked"}
InFlight(j) == client[j].pc = "waiting" \/ Active(j)

LockKey_CategoryOnly(p, c) == <<c>>

\* hashtextextended(($1::text || ':' || $2::text), 0): the key of the lock
LockKey(p, c) == <<p, c>>

HoldsLock_LeakOnAbort(j, key) ==
  /\ req[j].handler = "v2"
  /\ txn[j].pc \in {"running", "picked", "aborted"}
  /\ LockKey(req[j].player, req[j].category) = key

\* a transaction holds its advisory lock from acquisition to its end
HoldsLock(j, key) ==
  /\ req[j].handler = "v2"
  /\ txn[j].pc \in {"running", "picked"}
  /\ LockKey(req[j].player, req[j].category) = key

RowLockedByOther_NoLock(i, id) == FALSE

\* FOR UPDATE row lock, held from selection to the end of the transaction
RowLockedByOther(i, id) ==
  \E j \in CallIds \ {i} : txn[j].pc = "picked" /\ txn[j].row = id

\* used_code.id of the rows that reference a code: ids follow insertion order
RecordsOfRow(id) == {k \in 1..Len(ledger) : ledger[k].code_id = id}

Unused(cat) == {id \in CodeIds : codes[id].category = cat /\ codes[id].used_at = NULL}

\* CTE existing, over the statement's snapshot of used_code (a prefix of the
\* append-only table) joined with codes
Existing(i) ==
  {ledger[k].code_id : k \in {k \in 1..txn[i].snapLen :
       /\ ledger[k].player_user_id = req[i].player
       /\ ledger[k].player_user_id # NoPlayer
       /\ codes[ledger[k].code_id].category = req[i].category}}

\* CTE picked: rows of the category that are unused in the snapshot, still
\* unused in their latest committed version, and not locked by another
\* transaction (SKIP LOCKED), in id order, LIMIT 1
Candidates(i) ==
  {id \in txn[i].snapAvail :
      /\ codes[id].category = req[i].category
      /\ codes[id].used_at = NULL
      /\ ~RowLockedByOther(i, id)}

Picked_IgnoreExisting(i, ex) ==
  IF Candidates(i) = {} THEN NULL ELSE Min(Candidates(i))

Picked(i, ex) ==
  IF req[i].handler = "v2" /\ ex # {} THEN NULL
  ELSE IF Candidates(i) = {} THEN NULL
  ELSE Min(Candidates(i))

\* players are interchangeable: a player id is first used only after every
\* smaller id has been used
Seen(q) == \E j \in CallIds : client[j].pc # "idle" /\ req[j].player = q

\* ---------------------------------------------------------------- actions
\* A request that passed method, credential and body checks reaches the try
\* block: the handler arms its deadline (v2) and sends the statement.
Invoke(i, h, p, c) ==
  /\ client[i].pc = "idle"
  /\ \A j \in CallIds : j < i => client[j].pc # "idle"
  /\ h = "v2" => p # NoPlayer
  /\ p \in Players => \A q \in 1..(p - 1) : Seen(q)
  /\ req' = [req EXCEPT ![i] = [handler |-> h, player |-> p, category |-> c]]
  /\ client' = [client EXCEPT ![i].pc = "waiting"]
  /\ hist' = [j \in CallIds |->
       IF j = i THEN
         [alone |-> \A k \in CallIds \ {i} : ~InFlight(k),
          avail |-> Unused(c),
          prior |-> {client[k].code : k \in {k \in CallIds :
                        /\ client[k].pc = "done" /\ client[k].status = 200
                        /\ p # NoPlayer
                        /\ req[k].player = p /\ req[k].category = c}},
          retry |-> \E k \in CallIds :
                        /\ client[k].pc = "done" /\ client[k].status = 504
                        /\ req[k].handler = "v2"
                        /\ req[k].player = p /\ req[k].category = c]
       ELSE IF InFlight(j) THEN [hist[j] EXCEPT !.alone = FALSE]
       ELSE hist[j]]
  /\ UNCHANGED <<codes, ledger, txn>>

\* The statement starts on the store: its snapshot is taken now, before the
\* advisory lock is requested; now() is the transaction's start time.
Begin(i) ==
  /\ client[i].pc = "waiting"
  /\ txn[i].pc = "none"
  /\ txn' = [txn EXCEPT ![i] =
       [pc |-> IF req[i].handler = "v2" THEN "wantlock" ELSE "running",
        start |-> Now(i),
        snapAvail |-> {id \in CodeIds : codes[id].used_at = NULL},
        snapLen |-> Len(ledger),
        already |-> NULL, row |-> NULL]]
  /\ UNCHANGED <<codes, ledger, req, client, hist>>

\* lock_cte: pg_advisory_xact_lock waits until no other transaction holds the key
AcquireLock(i) ==
  /\ txn[i].pc = "wantlock"
  /\ \A j \in CallIds \ {i} :
        ~HoldsLock(j, LockKey(req[i].player, req[i].category))
  /\ txn' = [txn EXCEPT ![i].pc = "running"]
  /\ UNCHANGED <<codes, ledger, req, client, hist>>

\* existing, picked, updated, logged are evaluated; the writes stay private
\* to the transaction until it commits, the row lock is visible to others.
Pick(i) ==
  /\ txn[i].pc = "running"
  /\ ~IsFraction(req[i].player)     \* $1::bigint fails on '1.5'
  /\ \E ex \in (IF Existing(i) = {} THEN {NULL} ELSE Existing(i)) :
       txn' = [txn EXCEPT ![i].pc = "picked",
                          ![i].already = IF req[i].handler = "v2" THEN ex ELSE NULL,
                          ![i].row = Picked(i, Existing(i))]
  /\ UNCHANGED <<codes, ledger, req, client, hist>>

CommitCodes_WholeCategory(i) ==
  IF txn[i].row = NULL THEN codes
  ELSE [id \in CodeIds |->
          IF codes[id].category = codes[txn[i].row].category
          THEN [codes[id] EXCEPT !.used_at = txn[i].start] ELSE codes[id]]

\* the rows written by CTEs updated and logged
CommitCodes(i) ==
  IF txn[i].row = NULL THEN codes
  ELSE [codes EXCEPT ![txn[i].row].used_at = txn[i].start]

CommitLedger_NoInsert(i) == ledger

CommitLedger(i) ==
  IF txn[i].row = NULL THEN ledger
  ELSE Append(ledger, [code_id |-> txn[i].row,
                       player_user_id |-> req[i].player,
                       category |-> IF req[i].handler = "v2"
                                    THEN req[i].category ELSE "null"])

\* the statement ends: both writes become visible, all locks are released
Commit(i) ==
  /\ txn[i].pc = "picked"
  /\ codes' = CommitCodes(i)
  /\ ledger' = CommitLedger(i)
  /\ txn' = [txn EXCEPT ![i].pc = "committed", ![i].start = 0,
                         ![i].snapAvail = {}, ![i].snapLen = 0]
  /\ UNCHANGED <<req, client, hist>>

AbortCodes_KeepUpdate(i) == CommitCodes(i)

\* what a rolled-back statement leaves in the tables
AbortCodes(i) == codes

\* the statement fails or is cancelled on the store: rollback
Abort(i) ==
  /\ Active(i)
  /\ codes' = AbortCodes(i)
  /\ txn' = [txn EXCEPT ![i] = [IdleTxn EXCEPT !.pc = "aborted"]]
  /\ UNCHANGED <<ledger, req, client, hist>>

ResultStatusV2_NoReplay(alreadyCode, newCode) ==
  IF newCode = NULL THEN 404 ELSE 200

\* the handler's reading of result.rows[0]
ResultStatusV2(alreadyCode, newCode) ==
  IF alreadyCode # NULL THEN 409
  ELSE IF newCode = NULL THEN 404
  ELSE 200

ResultStatusV1(code) == IF code = NULL THEN 404 ELSE 200

ResultCode(status, newCode) == IF status = 200 THEN newCode ELSE NULL

\* the result row arrives and the handler answers 200 / 404 / 409
Respond(i) ==
  /\ client[i].pc = "waiting"
  /\ txn[i].pc = "committed"
  /\ LET alreadyCode == IF txn[i].already = NULL THEN NULL ELSE CodeValue(txn[i].already)
         newCode == IF txn[i].row = NULL THEN NULL ELSE CodeValue(txn[i].row)
         status == IF req[i].handler = "v2"
                   THEN ResultStatusV2(alreadyCode, newCode)
                   ELSE ResultStatusV1(newCode)
     IN client' = [client EXCEPT ![i] =
          [pc |-> "done", status |-> status,
           code |-> ResultCode(status, newCode), cause |-> "none"]]
  /\ UNCHANGED <<codes, ledger, req, txn, hist>>

\* the store reports the failed statement; the handler's catch block answers
RespondError(i) ==
  /\ client[i].pc = "waiting"
  /\ txn[i].pc = "aborted"
  /\ \E err \in OtherErrs :
       client' = [client EXCEPT ![i] =
          [pc |-> "done", status |-> CatchStatus(req[i].handler, err),
           code |-> NULL, cause |-> "other"]]
  /\ UNCHANGED <<codes, ledger, req, txn, hist>>

\* DB_TIMEOUT_MS elapse before the response arrives: the v2 handler aborts
\* its fetch.  The statement on the store is not touched by this step.
Timeout(i) ==
  /\ client[i].pc = "waiting"
  /\ req[i].handler = "v2"
  /\ \E err \in TimeoutErrs :
       client' = [client EXCEPT ![i] =
          [pc |-> "done", status |-> CatchStatus(req[i].handler, err),
           code |-> NULL, cause |-> "timeout"]]
  /\ UNCHANGED <<codes, ledger, req, txn, hist>>

\* the connection to the store is lost before the response arrives
ConnError(i) ==
  /\ client[i].pc = "waiting"
  /\ \E err \in ConnErrs :
       client' = [client EXCEPT ![i] =
          [pc |-> "done", status |-> CatchStatus(req[i].handler, err),
           code |-> NULL, cause |-> "conn"]]
  /\ UNCHANGED <<codes, ledger, req, txn, hist>>

Step(i) ==
  /\ \/ Begin(i)
     \/ AcquireLock(i)
     \/ Pick(i)
     \/ Commit(i)
     \/ Abort(i)
     \/ Respond(i)
     \/ RespondError(i)
     \/ Timeout(i)
     \/ ConnError(i)
  /\ UNCHANGED <<http, reader>>

Next ==
  \/ /\ \E i \in CallIds, h \in Handlers, p \in Players \cup {NoPlayer},
           c \in ALLOWED_CATEGORIES : Invoke(i, h, p, c)
     /\ UNCHANGED <<http, reader>>
  \/ \E i \in CallIds : Step(i)

Spec == Init /\ [][Next]_vars

\* only the handler of part_002 (lock + ledger lookup) is deployed
NextV2 ==
  \/ /\ \E i \in CallIds, p \in Players, c \in ALLOWED_CATEGORIES :
           Invoke(i, "v2", p, c)
     /\ UNCHANGED <<http, reader>>
  \/ \E i \in CallIds : Step(i)

SpecV2 == Init /\ [][NextV2]_vars

\* The store runs every statement it has started to its end: a lock that is
\* free is granted, a running statement selects, a statement that selected
\* commits (unless it fails first).
StoreFairness ==
  \A i \in CallIds : /\ WF_vars(AcquireLock(i) /\ UNCHANGED <<http, reader>>)
                     /\ WF_vars(Pick(i) /\ UNCHANGED <<http, reader>>)
                     /\ WF_vars(Commit(i) /\ UNCHANGED <<http, reader>>)

FairSpec == Spec /\ StoreFairness

\* The handler's own steps happen: an armed deadline fires unless the call
\* was answered before, and a result that reached the handler is answered.
\* Nothing is assumed of the store.
HandlerFairness ==
  \A i \in CallIds : /\ WF_vars(Timeout(i) /\ UNCHANGED <<http, reader>>)
                     /\ WF_vars(Respond(i) /\ UNCHANGED <<http, reader>>)
                     /\ WF_vars(RespondError(i) /\ UNCHANGED <<http, reader>>)

SpecDeadline == Spec /\ HandlerFairness

\* ------------------------------------------------- requests as received
\* a redeem handler answers the request before its try block
Reject(i, h, r, v) ==
  /\ client[i].pc = "idle"
  /\ \A j \in CallIds : j < i => client[j].pc # "idle"
  /\ client' = [client EXCEPT ![i] =
        [pc |-> "done", status |-> v.status, code |-> NULL, cause |-> "none"]]
  /\ http' = [http EXCEPT ![i] =
        [handler |-> h, error |-> v.error, bad |-> BadRedeem(r)]]
  /\ UNCHANGED <<codes, ledger, req, txn, hist, reader>>

\* a redeem handler receives a request: it is rejected, or parsed and sent on
Request(i, h, r) ==
  /\ client[i].pc = "idle"
  /\ LET v == ValidateRedeem(h, r)
         b == parseRedeemBody(h, r.body)
     IN IF v.status # 0
        THEN Reject(i, h, r, v)
        ELSE /\ Invoke(i, h, b.player, b.category)
             /\ http' = [http EXCEPT ![i] =
                   [handler |-> h, error |-> "none", bad |-> BadRedeem(r)]]
             /\ UNCHANGED reader

NextHttp ==
  \/ \E i \in CallIds, h \in Handlers, r \in RedeemRequests : Request(i, h, r)
  \/ \E i \in CallIds : Step(i)

SpecHttp == Init /\ [][NextHttp]_vars

\* ------------------------------------------------------- read accessors
\* One read request is in progress at a time.  Each query is one statement:
\* the store runs it at some moment and reads the committed tables of that
\* moment; its rows reach the handler later, and the answer later still.
\* Redeem calls move freely in between.

\* a read handler receives a request: it answers 405/401/400, or sends its
\* first query
ReaderRequest(h, r) ==
  /\ reader.pc = "idle"
  /\ LET v == ValidateReader(h, r)
     IN reader' =
          IF v.status # 0
          THEN [IdleReader EXCEPT !.pc = "done", !.handler = h,
                                  !.bad = BadRead(h, r),
                                  !.status = v.status, !.error = v.error]
          ELSE [IdleReader EXCEPT !.pc = "query", !.handler = h,
                                  !.bad = BadRead(h, r),
                                  !.category = IF h = "stats" THEN "" ELSE r.query.category,
                                  !.code = IF h = "status" THEN r.query.code ELSE NULL]
  /\ UNCHANGED <<codes, ledger, req, client, txn, hist, http>>

\* SELECT ... FROM codes WHERE code = $1 [AND category = $2] LIMIT 1
CodeQuery(code, category) ==
  LET rows == {id \in CodeIds : /\ CodeValue(id) = code
                                /\ category # "" => codes[id].category = category}
  IN IF rows = {} THEN NULL ELSE Min(rows)

\* SELECT ... FROM used_code WHERE code_id = $1 ORDER BY id DESC LIMIT 1
USED_QUERY(id) ==
  IF RecordsOfRow(id) = {} THEN NULL ELSE Max(RecordsOfRow(id))

\* PEEK_SQL: the unused row of the category with the least id, no locking
PEEK_SQL(category) ==
  IF Unused(category) = {} THEN NULL ELSE Min(Unused(category))

\* FROM db_meta_data: the relation is created outside the source, which
\* only reads it.  Its rows (category, remaining, used) are the counts of the
\* codes table as it is now (a view, or a table kept in step with every
\* redeem statement) or as it was at an earlier time (a table or materialised
\* view brought up to date apart from the redeem statement): of each
\* category, some of the codes used by now may still be counted as remaining.
db_meta_data ==
  LET UsedNow(c) == {id \in CodeIds : codes[id].category = c
                                       /\ codes[id].used_at # NULL}
  IN { [c \in ALLOWED_CATEGORIES |->
          [remaining |-> Cardinality(Unused(c)) + late[c],
           used |-> Cardinality(UsedNow(c)) - late[c]]] :
       late \in { f \in [ALLOWED_CATEGORIES -> 0..MaxCode] :
                    \A c \in ALLOWED_CATEGORIES :
                       f[c] <= Cardinality(UsedNow(c)) } }

\* the store runs the first query of the handler
RunQuery ==
  /\ reader.pc = "query"
  /\ \E rows \in db_meta_data :
       reader' =
         IF reader.handler = "status" THEN
           LET id == CodeQuery(reader.code, reader.category)
           IN [reader EXCEPT !.pc = "result", !.category = "", !.code = NULL,
                             !.row = id,
                             !.used = id # NULL /\ codes[id].used_at # NULL]
         ELSE IF reader.handler = "peek" THEN
           [reader EXCEPT !.pc = "result", !.category = "",
                          !.row = PEEK_SQL(reader.category)]
         ELSE [reader EXCEPT !.pc = "result", !.stats = rows]
  /\ UNCHANGED <<codes, ledger, req, client, txn, hist, http>>

\* the store runs USED_QUERY
RunUsedQuery ==
  /\ reader.pc = "query2"
  /\ reader' = [reader EXCEPT !.pc = "result2",
                              !.usedRecord = USED_QUERY(reader.row)]
  /\ UNCHANGED <<codes, ledger, req, client, txn, hist, http>>

\* the status handler reads codeRow: 404, used: false, or USED_QUERY is sent
StatusLookup ==
  /\ reader.pc = "result" /\ reader.handler = "status"
  /\ reader' =
       IF reader.row = NULL
       THEN [reader EXCEPT !.pc = "done", !.status = 404, !.error = "NOT_FOUND"]
       ELSE IF ~reader.used
       THEN [reader EXCEPT !.pc = "done", !.status = 200]
       ELSE [reader EXCEPT !.pc = "query2"]
  /\ UNCHANGED <<codes, ledger, req, client, txn, hist, http>>

\* the status handler reads usedRecord and answers used: true
StatusUsed ==
  /\ reader.pc = "result2"
  /\ reader' = [reader EXCEPT !.pc = "done", !.status = 200]
  /\ UNCHANGED <<codes, ledger, req, client, txn, hist, http>>

\* the peek handler reads the row and answers it, or 404
Peek ==
  /\ reader.pc = "result" /\ reader.handler = "peek"
  /\ reader' =
       IF reader.row = NULL
       THEN [reader EXCEPT !.pc = "done", !.status = 404, !.error = "OUT_OF_STOCK"]
       ELSE [reader EXCEPT !.pc = "done", !.status = 200,
                           !.code = CodeValue(reader.row)]
  /\ UNCHANGED <<codes, ledger, req, client, txn, hist, http>>

\* { stats: rows }: the rows are answered as read
StatsRows(rows) ==
  [c \in ALLOWED_CATEGORIES |-> [remaining |-> rows[c].remaining, used |-> rows[c].used]]

\* the stats handler reads the rows and answers them
Stats ==
  /\ reader.pc = "result" /\ reader.handler = "stats"
  /\ reader' = [reader EXCEPT !.pc = "done", !.status = 200,
                              !.stats = StatsRows(reader.stats)]
  /\ UNCHANGED <<codes, ledger, req, client, txn, hist, http>>

\* a query of a read handler fails, or its deadline passes before its rows
\* are read (status and peek arm one, stats does not); the catch block answers
ReaderFail ==
  /\ reader.pc \in {"query", "result", "query2", "result2"}
  /\ \E err \in (IF reader.handler = "stats" THEN {} ELSE TimeoutErrs)
                \cup ConnErrs \cup OtherErrs :
       reader' = [IdleReader EXCEPT
          !.pc = "done",
          !.handler = reader.handler,
          !.status = IF reader.handler = "stats" THEN CatchStatusV1(err)
                     ELSE CatchStatusV2(err),
          !.error = "failed"]
  /\ UNCHANGED <<codes, ledger, req, client, txn, hist, http>>

\* the caller of a read handler receives the answer
ReaderReceive ==
  /\ reader.pc = "done"
  /\ reader' = IdleReader
  /\ UNCHANGED <<codes, ledger, req, client, txn, hist, http>>

\* the steps of a read request after it was received
ReaderRun ==
  \/ RunQuery
  \/ RunUsedQuery
  \/ StatusLookup
  \/ StatusUsed
  \/ Peek
  \/ Stats
  \/ ReaderFail
  \/ ReaderReceive

\* every handler as called with a request that passes its validation
NextRead ==
  \/ /\ \E i \in CallIds, h \in Handlers, p \in Players \cup {NoPlayer},
           c \in ALLOWED_CATEGORIES : Invoke(i, h, p, c)
     /\ UNCHANGED <<http, reader>>
  \/ \E i \in CallIds : Step(i)
  \/ \E h \in ReaderHandlers, r \in ReaderRequests :
        /\ ValidateReader(h, r) = Accepted
        /\ ReaderRequest(h, r)
  \/ ReaderRun

SpecRead == Init /\ [][NextRead]_vars

\* every handler of the repository, requests as received
NextAll ==
  \/ \E i \in 1..MaxRequests, h \in Handlers, r \in RedeemRequests : Request(i, h, r)
  \/ \E i \in CallIds : Step(i)
  \/ \E h \in ReaderHandlers, r \in ReaderRequests : ReaderRequest(h, r)
  \/ ReaderRun

SpecAll == Init /\ [][NextAll]_vars

\* ================================================================= claims
Done(i) == client[i].pc = "done"
Resolved(i) == Done(i) /\ client[i].status \in {200, 404, 409}
Failed(i) == Done(i) /\ client[i].status \in {500, 503, 504}

RecordsOfCode(id) == {k \in 1..Len(ledger) : ledger[k].code_id = id}
RecordsOfKey(p, c) ==
  {k \in 1..Len(ledger) : /\ ledger[k].player_user_id = p
                          /\ codes[ledger[k].code_id].category = c}
Seeded(c) == {id \in CodeIds : SeedCategory(id) = c}
CallsFor(c) == {i \in CallIds : client[i].pc # "idle" /\ req[i].category = c}

\* C1: no double issuance.  At most one used_code row references a code, no
\* code value is answered 200 to two calls, and when every call for a category
\* seeded with exactly one code has resolved without a store failure, exactly
\* one of them resolved Allocated (the others 404 or 409).
C1_NoDoubleIssuance ==
  /\ \A id \in CodeIds : Cardinality(RecordsOfCode(id)) <= 1
  /\ \A i, j \in CallIds :
        (i # j /\ Done(i) /\ Done(j) /\ client[i].status = 200
               /\ client[j].status = 200) => client[i].code # client[j].code
  /\ \A c \in ALLOWED_CATEGORIES :
        (/\ Cardinality(Seeded(c)) = 1
         /\ CallsFor(c) # {}
         /\ \A i \in CallsFor(c) : Resolved(i))
        => Cardinality({i \in CallsFor(c) : client[i].status = 200}) = 1

\* two overlapping calls raced for the single cashback code: one got it, the
\* other was answered OUT_OF_STOCK
C1_Witness ==
  \E i, j \in CallIds :
     /\ i # j
     /\ req[i].category = "gopay_cashback" /\ req[j].category = "gopay_cashback"
     /\ Done(i) /\ client[i].status = 200
     /\ Done(j) /\ client[j].status = 404
     /\ ~hist[i].alone /\ ~hist[j].alone

\* C2: per-key idempotency (I2).  For every (playerId, category) at most one
\* used_code row exists whose code has that category, also when calls with
\* the same key overlap.
C2_PerKeyIdempotency ==
  \A p \in Players, c \in ALLOWED_CATEGORIES :
     Cardinality(RecordsOfKey(p, c)) <= 1

\* C3: atomicity (I1).  In every state of the tables, also after calls timed
\* out, were aborted or failed, used_at is set iff a used_code row references
\* the code.
C3_Atomicity ==
  \A id \in CodeIds : (codes[id].used_at # NULL) <=> (RecordsOfCode(id) # {})

\* one call's statement was rolled back after its caller had been answered
\* 504, while another call consumed a code
C3_Witness ==
  \E i, j \in CallIds :
     /\ Done(i) /\ client[i].status = 504 /\ txn[i].pc = "aborted"
     /\ Done(j) /\ client[j].status = 200
     /\ codes[txn[j].row].used_at # NULL

\* C4 (as claimed): once a call of the part_002 handler's key has been
\* answered 200 with code v, every later call of that handler with the same
\* key that resolves without a store failure returns v.
C4_ReplayReturnsCode ==
  \A i \in CallIds :
     (req[i].handler = "v2" /\ Resolved(i) /\ hist[i].prior # {})
     => client[i].code \in hist[i].prior

\* C4 (amended): such a later call is answered 409 ALREADY_REDEEMED and its
\* response carries no code value (so never a code other than v).
C4_ReplayAlreadyRedeemed ==
  \A i \in CallIds :
     (req[i].handler = "v2" /\ Resolved(i) /\ hist[i].prior # {})
     => client[i].status = 409 /\ client[i].code = NULL

\* a replay after a delivered success was answered 409
C4_Witness ==
  \E i \in CallIds :
     /\ req[i].handler = "v2" /\ Done(i) /\ client[i].status = 409
     /\ hist[i].prior # {}

\* C5: exhaustion count.  With calls from distinct players, a category seeded
\* with N codes yields at most N Allocated answers and no call is answered
\* OUT_OF_STOCK while a code of the category is still unconsumed.
C5_ExhaustionCount ==
  \A c \in ALLOWED_CATEGORIES :
     (\A i, j \in CallsFor(c) :
         i # j => (req[i].player # req[j].player /\ req[i].player # NoPlayer
                                                 /\ req[j].player # NoPlayer))
     => /\ Cardinality({i \in CallsFor(c) : client[i].status = 200})
             <= Cardinality(Seeded(c))
        /\ \A i \in CallsFor(c) :
              (Done(i) /\ client[i].status = 404) => Unused(c) = {}

\* C6: no mutation on failure.  A call answered 504, 503 or 500 has not
\* changed codes or used_code: its statement did not commit an allocation.
C6_NoMutationOnFailure ==
  \A i \in CallIds :
     Failed(i) => ~(txn[i].pc = "committed" /\ txn[i].row # NULL)

\* C7: retry after timeout.  A retry issued after its key was answered 504
\* resolves Allocated only when no allocation for that key had happened (the
\* key then holds exactly the one code), and no code is ever half-consumed.
C7_RetryAfterTimeout ==
  /\ \A i \in CallIds :
        (hist[i].retry /\ Done(i) /\ client[i].status = 200)
        => Cardinality(RecordsOfKey(req[i].player, req[i].category)) = 1
  /\ C3_Atomicity

\* C8: replay leaves the store unchanged.  The commit of a statement that
\* found an existing record for its key changes neither codes nor used_code.
C8_ReplayNoMutation ==
  [][\A i \in CallIds :
        (txn[i].pc = "picked" /\ txn[i].already # NULL
                              /\ txn'[i].pc = "committed")
        => (codes' = codes /\ ledger' = ledger)]_vars

\* a call was answered 409 while its category still had an unconsumed code
C8_Witness ==
  \E i \in CallIds :
     /\ Done(i) /\ client[i].status = 409
     /\ Unused(req[i].category) # {}

\* C9: sequential FIFO.  A call that ran with no other call in flight and
\* resolved 200 or 404 got the unconsumed code with the smallest id of its
\* category as of its arrival (404 only if there was none).
C9_SequentialFIFO ==
  \A i \in CallIds :
     (hist[i].alone /\ Done(i) /\ client[i].status \in {200, 404})
     => IF hist[i].avail = {}
        THEN client[i].status = 404
        ELSE /\ client[i].status = 200
             /\ \E id \in hist[i].avail :
                   /\ client[i].code = CodeValue(id)
                   /\ \A other \in hist[i].avail : id <= other

\* two calls, one after the other, were handed codes 1 and then 2
C9_Witness ==
  \E i, j \in CallIds :
     /\ i < j /\ hist[i].alone /\ hist[j].alone
     /\ Done(i) /\ client[i].code = CodeValue(1)
     /\ Done(j) /\ client[j].code = CodeValue(2)

\* C10: failure classification.  A failed store interaction is answered 504
\* when the deadline passed, 503 when the connection was lost, 500 otherwise,
\* and never 200.
C10_FailureClassification ==
  \A i \in CallIds :
     (Done(i) /\ client[i].cause # "none")
     => /\ client[i].status # 200
        /\ client[i].cause = "timeout" => client[i].status = 504
        /\ client[i].cause = "conn" => client[i].status = 503
        /\ client[i].cause = "other" => client[i].status = 500

\* C12: FIFO under concurrency (I3).  Whenever a statement has selected a
\* code, no code of the same category with a smaller id is unconsumed.
C12_FifoUnderConcurrency ==
  \A i \in CallIds :
     (txn[i].pc = "picked" /\ txn[i].row # NULL)
     => \A id \in Unused(req[i].category) : id >= txn[i].row

\* C13: OutOfStock is truthful.  A call answered 404 OUT_OF_STOCK leaves no
\* unconsumed code in its category and its player holds no record for it.
C13_OutOfStockTruthful ==
  \A i \in CallIds :
     (Done(i) /\ client[i].status = 404)
     => /\ Unused(req[i].category) = {}
        /\ req[i].player # NoPlayer
             => RecordsOfKey(req[i].player, req[i].category) = {}

\* C14: independence of different keys.  A statement that waits for its
\* advisory lock waits for a statement of a call with the same player and
\* category, and a statement that holds its lock (or needs none) can always
\* select: row selection never waits.
C14_KeyIndependence ==
  \A i \in CallIds :
     /\ (txn[i].pc = "wantlock" /\ ~ENABLED AcquireLock(i))
        => \E j \in CallIds \ {i} :
              /\ Active(j) /\ req[j].handler = "v2"
              /\ req[j].player = req[i].player
              /\ req[j].category = req[i].category
     /\ txn[i].pc = "running" => ENABLED Pick(i)

\* two calls of different players hold their locks and their rows in the
\* same category at the same time
C14_Witness ==
  \E i, j \in CallIds :
     /\ req[i].handler = "v2" /\ req[j].handler = "v2"
     /\ req[i].category = req[j].category /\ req[i].player # req[j].player
     /\ txn[i].pc = "picked" /\ txn[j].pc = "picked"
     /\ txn[i].row # NULL /\ txn[j].row # NULL /\ txn[i].row # txn[j].row

\* C15: the exclusion scope never leaks.  Under StoreFairness a statement
\* that waits for the advisory lock of its key gets past the wait and ends,
\* however the statements holding the key before it ended.
C15_ScopeReleased ==
  \A i \in CallIds :
     (txn[i].pc = "wantlock") ~> (txn[i].pc \in {"committed", "aborted"})

\* a call's statement committed after a same-key call, answered 504, had its
\* statement rolled back
C15_Witness ==
  \E i, j \in CallIds :
     /\ i # j /\ req[i].handler = "v2" /\ req[j].handler = "v2"
     /\ req[i].player = req[j].player /\ req[i].category = req[j].category
     /\ client[j].status = 504 /\ txn[j].pc = "aborted"
     /\ txn[i].pc = "committed" /\ ~hist[i].alone

\* C16: every redeem invocation resolves.  Under HandlerFairness alone (the
\* store may never answer) every call that waits is eventually answered, and
\* a statement still running when the deadline fired never commits afterwards.
C16_EveryCallResolves ==
  /\ \A i \in CallIds : (client[i].pc = "waiting") ~> (client[i].pc = "done")
  /\ [][\A i \in CallIds :
          (client[i].cause = "timeout" /\ Active(i))
          => txn'[i].pc # "committed"]_vars

Rejections == {400, 401, 405}

\* C17: rejection precedes the store.  In every handler a request with a
\* wrong method, a missing or mismatching credential, malformed JSON or an
\* invalid body/category is answered 405, 401 or 400 in the step that
\* receives it, no query is sent for it then or later, and the step changes
\* neither codes nor used_code.
C17_RejectionPrecedesStore ==
  /\ [](\A i \in CallIds :
           http[i].bad => /\ Done(i) /\ client[i].status \in Rejections
                          /\ txn[i].pc = "none")
  /\ [](reader.bad => /\ reader.pc = "done" /\ reader.status \in Rejections
                       /\ reader.row = NULL /\ reader.stats = NoStats)
  /\ [][((\E i \in CallIds : http'[i].bad /\ ~http[i].bad)
          \/ (reader'.bad /\ ~reader.bad))
        => (codes' = codes /\ ledger' = ledger)]_vars

\* a redeem request was rejected for its JSON and a read request is rejected
\* for its credential
C17_Witness ==
  /\ \E i \in CallIds : http[i].bad /\ client[i].status = 400
                        /\ http[i].error = "INVALID_JSON" /\ txn[i].pc = "none"
  /\ reader.bad /\ reader.status = 401 /\ reader.handler = "status"

\* C18: the status handler is consistent with the ledger.  An answer
\* used: true carries a used_code row that references the code row it
\* reports, and an answer used: false carries none, whatever the redeem
\* calls do between and around its two queries.
C18_StatusConsistent ==
  (reader.pc = "done" /\ reader.handler = "status" /\ reader.status = 200)
  => /\ reader.used => /\ reader.usedRecord # NULL
                       /\ ledger[reader.usedRecord].code_id = reader.row
     /\ ~reader.used => reader.usedRecord = NULL

\* used: true is answered for a code while another redeem call is in flight
C18_Witness ==
  /\ reader.pc = "done" /\ reader.handler = "status" /\ reader.status = 200
  /\ reader.used /\ reader.usedRecord # NULL
  /\ \E i \in CallIds : Active(i)

\* C19: consumption is one-way and the ledger is append-only.  In every step
\* of every handler no code row appears, disappears or changes category, a
\* used_at that is set keeps its value, and used_code keeps every row it has;
\* a step that changes either table is the commit of one redeem statement,
\* which sets one null used_at and appends one used_code row for that code.
C19_OneWayAppendOnly ==
  [][/\ DOMAIN codes' = DOMAIN codes
     /\ \A id \in CodeIds :
          /\ codes'[id].category = codes[id].category
          /\ codes[id].used_at # NULL => codes'[id].used_at = codes[id].used_at
     /\ Len(ledger') >= Len(ledger)
     /\ \A k \in 1..Len(ledger) : ledger'[k] = ledger[k]
     /\ (codes' # codes \/ ledger' # ledger)
        => \E i \in CallIds, id \in CodeIds :
              /\ txn[i].pc = "picked" /\ txn'[i].pc = "committed"
              /\ codes[id].used_at = NULL /\ codes'[id].used_at # NULL
              /\ \A other \in CodeIds \ {id} : codes'[other] = codes[other]
              /\ Len(ledger') = Len(ledger) + 1
              /\ ledger'[Len(ledger')].code_id = id]_vars

\* a code was consumed, a later redeem call was answered 504, and the status
\* handler has read the consumed code and its record
C19_Witness ==
  /\ Len(ledger) >= 1
  /\ \E i \in CallIds : Done(i) /\ client[i].status = 504
  /\ \E i \in CallIds : Done(i) /\ client[i].status \in {404, 409}
  /\ reader.pc = "done" /\ reader.handler = "status" /\ reader.used

\* C20: player identity validation.  Only a request whose playerUserId is a
\* well-formed non-negative integer gets a statement on the store; any other
\* is answered 400 INVALID_BODY.
C20_PlayerValidated ==
  \A i \in CallIds :
     txn[i].pc # "none" => (req[i].player >= 0
                            /\ ~IsFraction(req[i].player))

====
